---- MODULE Spec2Model ----
(***************************************************************************)
(* Model of streamlit_app.py: the session state of the question generator, *)
(* the retry loop of process_generation_loop, the two reply parsers and    *)
(* the one-question-at-a-time review of display_mcq_session.               *)
(*                                                                         *)
(* A text is a sequence of one-character strings.  A reply of the model    *)
(* API to an MCQ prompt is represented by what pattern.findall yields on   *)
(* it (a sequence of ten-field match tuples); a reply to a comprehension   *)
(* prompt is a sequence of tokens, the section markers being one token     *)
(* each.  One script run of main is one step, except that the run that     *)
(* executes process_generation_loop is cut at each call of the model API.  *)
(* total_tokens_used and user_selections are written but never read by the *)
(* behaviour modelled here and are left out.                               *)
(***************************************************************************)
EXTENDS Integers, Sequences, FiniteSets, TLC

VARIABLES
    all_generated_questions,  \* st.session_state.all_generated_questions
    latest_generated_list,    \* st.session_state.latest_generated_list
    current_index,            \* st.session_state.current_index
    answer_checked,           \* st.session_state.answer_checked
    pc,                       \* "idle": no script run in progress; "awaiting": inside call_gemini_api in the loop
    num_to_generate,          \* process_generation_loop: parameter
    final_generated_list,     \* process_generation_loop: local
    retries_used,             \* process_generation_loop: local
    questions_needed,         \* process_generation_loop: local, the count put in the prompt
    reply_kind,               \* kind of the last reply the loop consumed
    api_calls,                \* calls of call_gemini_api made by the current run of the loop
    selected_option,          \* st.radio widget state: "none" or the letter of the chosen option
    displayed,                \* display_mcq_session rendered a question in the last run
    current_q_index,          \* display_mcq_session: local, the index it read
    verdict,                  \* feedback section: "none", "correct", "incorrect", "warning"
    correct_letter,           \* display_mcq_session: local, "" when no verdict was computed
    screen,                   \* what main reported in the last run
    generation_text,          \* main, comprehension branch: the reply, Some(text) or None
    parsed                    \* main, comprehension branch: result of parse_comprehension_response

vars == <<all_generated_questions, latest_generated_list, current_index, answer_checked,
          pc, num_to_generate, final_generated_list, retries_used, questions_needed,
          reply_kind, api_calls, selected_option, displayed, current_q_index, verdict,
          correct_letter, screen, generation_text, parsed>>

session_vars == <<all_generated_questions, latest_generated_list, current_index, answer_checked>>

loop_vars == <<num_to_generate, final_generated_list, retries_used, questions_needed,
               reply_kind, api_calls>>

comp_vars == <<generation_text, parsed>>

----
\* Bounds of the model.

\* largest value entered in the "How many MCQs" box (the program allows 1..20)
MaxNum == 2

\* largest number of match tuples in one MCQ reply
MaxBlocks == 2

\* largest number of tokens in one comprehension reply
MaxReplyLen == 5

----
\* Program constants.

MAX_RETRIES == 5

\* parse_generated_questions skips a block whose reasoning has more steps than this
MAX_STEPS == 20

----
\* Python values.

None == <<>>

Some(v) == <<v>>

Whitespace == {" ", "\n"}

RECURSIVE lstrip(_)
lstrip(s) == IF s # <<>> /\ Head(s) \in Whitespace THEN lstrip(Tail(s)) ELSE s

RECURSIVE rstrip(_)
rstrip(s) == IF s # <<>> /\ s[Len(s)] \in Whitespace THEN rstrip(SubSeq(s, 1, Len(s) - 1)) ELSE s

\* str.strip()
strip(s) == rstrip(lstrip(s))

\* str.count(c)
count(s, c) == Cardinality({i \in 1..Len(s) : s[i] = c})

----
\* Match tuples of the question-block pattern (the result of pattern.findall).

Match(question, opt_a, answer, reasoning) ==
    [ref_index |-> <<"0">>, question |-> question, difficulty |-> <<"H">>, topic |-> <<"T">>,
     opt_a |-> opt_a, opt_b |-> <<"x">>, opt_c |-> <<"y">>, opt_d |-> <<"z">>,
     answer |-> answer, reasoning |-> reasoning]

\* a reasoning text with n - 1 newline characters: n steps, the last n - 1 empty
Lines(n) == <<"r">> \o [i \in 1..(n - 1) |-> "\n"]

\* The match tuples a reply is built from: two that differ only in surrounding
\* whitespace and in the answer, two whose fields differ but whose "|"-joined
\* keys coincide, one with 21 reasoning steps and one with exactly 20.  A reply
\* names its match tuples by their position in this table.
Matches ==
    << Match(<<"q">>, <<"c">>, <<"(", "B", ")">>, <<"r">>),
       Match(<<" ", "q">>, <<"c", " ">>, <<"A">>, <<"r", "\n">>),
       Match(<<"a", "|", "b">>, <<"c">>, <<"b">>, <<"r">>),
       Match(<<"a">>, <<"b", "|", "c">>, <<"x", "C", "A">>, <<"r">>),
       Match(<<"p">>, <<"c">>, <<"(", "D", ")">>, Lines(MAX_STEPS + 1)),
       Match(<<"p">>, <<"c">>, <<"(", "D", ")">>, Lines(MAX_STEPS)) >>

\* the sequences over S of length at most n
SeqsUpTo(S, n) == UNION {[1..k -> S] : k \in 0..n}

\* What call_gemini_api hands back to the loop: None after an exception, the
\* empty text, or a non-empty text with the match tuples found in it.
Replies ==
    {[kind |-> "exception", matches |-> <<>>], [kind |-> "empty", matches |-> <<>>]}
    \cup {[kind |-> "text", matches |-> m] : m \in SeqsUpTo(DOMAIN Matches, MaxBlocks)}

----
\* parse_generated_questions

\* the f-string of the six key fields
ContentKey(question, a, b, c, d, reasoning) ==
    question \o <<"|">> \o a \o <<"|">> \o b \o <<"|">> \o c \o <<"|">> \o d \o <<"|">> \o reasoning

\* the content key of a question already stored
StoredKey(q) ==
    ContentKey(q.question, q.options.A, q.options.B, q.options.C, q.options.D, q.reasoning)

\* the content key of a match tuple
MatchKey(m) ==
    ContentKey(strip(m.question), strip(m.opt_a), strip(m.opt_b), strip(m.opt_c), strip(m.opt_d),
               strip(m.reasoning))

question_obj(m) ==
    [question |-> strip(m.question), difficulty |-> strip(m.difficulty), topic |-> strip(m.topic),
     options |-> [A |-> strip(m.opt_a), B |-> strip(m.opt_b), C |-> strip(m.opt_c), D |-> strip(m.opt_d)],
     reference_index |-> strip(m.ref_index), answer |-> strip(m.answer),
     reasoning |-> strip(m.reasoning)]

\* faulty variant: the key of an accepted block is not recorded
RememberNoKey(hashes, k) == hashes

\* unique_content_hashes.add(content_key)
RememberKey(hashes, k) == hashes \cup {k}

\* what the body of the for loop computes from one match tuple
BlockOf(m) ==
    [step_count |-> count(m.reasoning, "\n") + 1, content_key |-> MatchKey(m),
     question_obj |-> question_obj(m)]

\* BlockOf, tabulated over the match tuples of the model
Blocks == [i \in DOMAIN Matches |-> BlockOf(Matches[i])]

\* the for loop over the match tuples
RECURSIVE ParseMatches(_, _, _)
ParseMatches(matches, unique_content_hashes, new_questions) ==
    IF matches = <<>> THEN new_questions
    ELSE LET b == Blocks[Head(matches)]
         IN  IF b.step_count > MAX_STEPS
             THEN ParseMatches(Tail(matches), unique_content_hashes, new_questions)
             ELSE IF b.content_key \in unique_content_hashes
             THEN ParseMatches(Tail(matches), unique_content_hashes, new_questions)
             ELSE ParseMatches(Tail(matches), RememberKey(unique_content_hashes, b.content_key),
                               Append(new_questions, b.question_obj))

parse_generated_questions(matches, questions_list_so_far) ==
    ParseMatches(matches,
                 {StoredKey(questions_list_so_far[i]) : i \in 1..Len(questions_list_so_far)},
                 <<>>)

----
\* parse_comprehension_response, on a reply given as a sequence of tokens.

\* The tokens a comprehension reply is built from.  A marker is one token; the
\* patterns are compiled with re.IGNORECASE, so "[QUESTIONS]" is a marker too.
Tokens == {"[Story]", "[Questions]", "[QUESTIONS]", "[Answers]", " ", "\n", "x"}

CompTexts == SeqsUpTo(Tokens, MaxReplyLen)

lower(tok) ==
    CASE tok = "[Story]" -> "[story]"
      [] tok \in {"[Questions]", "[QUESTIONS]"} -> "[questions]"
      [] tok = "[Answers]" -> "[answers]"
      [] OTHER -> tok

\* faulty variant: the patterns compiled without re.IGNORECASE
LiteralExact(tok, literal) == tok = literal

\* a literal of a pattern matches a token, ignoring case
LiteralMatches(tok, literal) == lower(tok) = lower(literal)

\* least index >= from whose token matches the literal, 0 when there is none
RECURSIVE Find(_, _, _)
Find(text, literal, from) ==
    IF from > Len(text) THEN 0
    ELSE IF LiteralMatches(text[from], literal) THEN from
    ELSE Find(text, literal, from + 1)

\* re.search(open (.*?) close, text, IGNORECASE | DOTALL): the leftmost start
\* from which the pattern matches, the group being as short as it can be.
\* Some(group(1)), or None when there is no match.
RECURSIVE SearchBetween(_, _, _, _)
SearchBetween(text, open, close, from) ==
    LET i == Find(text, open, from)
        j == IF i = 0 THEN 0 ELSE Find(text, close, i + 1)
    IN  IF i = 0 THEN None
        ELSE IF j # 0 THEN Some(SubSeq(text, i + 1, j - 1))
        ELSE SearchBetween(text, open, close, i + 1)

\* re.search(open (.*?) $, text, IGNORECASE | DOTALL): without re.MULTILINE, $
\* matches at the end of the text and before a newline that ends the text.
SearchToEnd(text, open) ==
    LET i == Find(text, open, 1)
        n == Len(text)
    IN  IF i = 0 THEN None
        ELSE IF n > i /\ text[n] = "\n" THEN Some(SubSeq(text, i + 1, n - 1))
        ELSE Some(SubSeq(text, i + 1, n))

NoneTriple == [story |-> None, questions |-> None, answers |-> None]

parse_comprehension_response(text_blob) ==
    LET story_match == SearchBetween(text_blob, "[Story]", "[Questions]", 1)
        questions_match == SearchBetween(text_blob, "[Questions]", "[Answers]", 1)
        answers_match == SearchToEnd(text_blob, "[Answers]")
    IN  IF story_match = None \/ questions_match = None \/ answers_match = None
        THEN NoneTriple
        ELSE [story |-> Some(strip(story_match[1])),
              questions |-> Some(strip(questions_match[1])),
              answers |-> Some(strip(answers_match[1]))]

\* truth value of an optional text: None and the empty text are false
Truthy(opt) == opt # None /\ opt[1] # <<>>

----
\* display_mcq_session

Letters == {"A", "B", "C", "D"}

\* faulty variant, re.match in place of re.search: only the first character counts
MatchLetter(s) == IF s # <<>> /\ Head(s) \in Letters THEN Some(Head(s)) ELSE None

\* re.search(r"[ABCD]", s): the first character of s that is one of A, B, C, D
RECURSIVE SearchLetter(_)
SearchLetter(s) ==
    IF s = <<>> THEN None
    ELSE IF Head(s) \in Letters THEN Some(Head(s))
    ELSE SearchLetter(Tail(s))

\* the safety check on entry
SafetyCheck(index, total_count) == IF index >= total_count THEN 0 ELSE index

\* generated_list[i] with Python's indexing: a negative i counts from the end
InRange(list, i) == -Len(list) <= i /\ i < Len(list)

Item(list, i) == IF i >= 0 THEN list[i + 1] ELSE list[Len(list) + i + 1]

radio_options(options) == [l \in Letters |-> <<l, ")", " ">> \o options[l]]

\* the feedback section: the verdict and the letter named in it
Feedback(item, checked, selection) ==
    IF ~checked THEN [verdict |-> "none", correct_letter |-> ""]
    ELSE IF selection # "none"
    THEN LET selected == radio_options(item.options)[selection]
             user_letter == selected[1]
             correct_letter_match == SearchLetter(item.answer)
             letter == IF correct_letter_match # None THEN correct_letter_match[1] ELSE "?"
         IN  [verdict |-> IF user_letter = letter THEN "correct" ELSE "incorrect",
              correct_letter |-> letter]
    ELSE [verdict |-> "warning", correct_letter |-> ""]

\* Prev is shown / Next is shown, for the index and the count of the last render
PrevShown(index, total_count) == index > 0

NextShown(index, total_count) == index < total_count - 1

\* faulty variant: next_q with the body of prev_q, unguarded
next_q_wrong(index) == index - 1

\* next_q and prev_q on current_index
next_q(index) == index + 1

prev_q(index) == IF index > 0 THEN index - 1 ELSE index

\* The end of every run of main (lines 493-497): the review is rendered when
\* the latest list is not empty.  The radio keeps its selection only while a
\* widget with the same key radio_q<index> was rendered by the previous run.
Render(list, index, checked, selection) ==
    IF list # <<>>
    THEN LET idx == SafetyCheck(index, Len(list))
         IN  /\ current_index' = idx
             /\ current_q_index' = idx
             /\ IF InRange(list, idx)
                THEN LET sel == IF displayed /\ current_q_index = idx THEN selection ELSE "none"
                         fb == Feedback(Item(list, idx), checked, sel)
                     IN  /\ displayed' = TRUE
                         /\ selected_option' = sel
                         /\ verdict' = fb.verdict
                         /\ correct_letter' = fb.correct_letter
                ELSE /\ displayed' = FALSE
                     /\ selected_option' = "none"
                     /\ verdict' = "index_error"
                     /\ correct_letter' = ""
    ELSE /\ current_index' = index
         /\ current_q_index' = 0
         /\ displayed' = FALSE
         /\ selected_option' = "none"
         /\ verdict' = "none"
         /\ correct_letter' = ""

\* a run of main in which the Generate button was not clicked
RunWithoutGenerate(index, checked, selection) ==
    /\ pc = "idle"
    /\ answer_checked' = checked
    /\ Render(latest_generated_list, index, checked, selection)
    /\ screen' = "rerun"
    /\ generation_text' = None
    /\ parsed' = NoneTriple
    /\ UNCHANGED <<all_generated_questions, latest_generated_list, pc, loop_vars>>

\* a sidebar widget was changed: the script runs again
SidebarChange == RunWithoutGenerate(current_index, answer_checked, selected_option)

\* a radio option was chosen
SelectOption ==
    /\ displayed
    /\ \E l \in Letters : RunWithoutGenerate(current_index, answer_checked, l)

ClickCheck ==
    /\ displayed
    /\ RunWithoutGenerate(current_index, TRUE, selected_option)

ClickNext ==
    /\ displayed
    /\ NextShown(current_q_index, Len(latest_generated_list))
    /\ RunWithoutGenerate(next_q(current_index), FALSE, selected_option)

ClickPrev ==
    /\ displayed
    /\ PrevShown(current_q_index, Len(latest_generated_list))
    /\ RunWithoutGenerate(prev_q(current_index),
                          IF current_index > 0 THEN FALSE ELSE answer_checked,
                          selected_option)

----
\* process_generation_loop and the Generate button

\* faulty variant: the loop without its limit on retries
LoopConditionNoRetryLimit(final, n, retries) == Len(final) < n

\* the condition of the while loop
LoopCondition(final, n, retries) == Len(final) < n /\ retries < MAX_RETRIES

\* faulty variant: every attempt asks for the full count again
QuestionsNeededAll(n, final) == n

\* the count asked for in one attempt
QuestionsNeeded(n, final) == n - Len(final)

\* faulty variant: "if generation_text is not None:", an empty reply goes on
BreaksOnlyOnException(reply) == reply.kind = "exception"

\* "if generation_text:" is false: the attempt ends in break
Breaks(reply) == reply.kind # "text"

\* the body of the loop for a reply that is a non-empty text: the new values
\* of the two lists and of the counter
BodyAfterText(reply, final, all, retries) ==
    LET newly_parsed == parse_generated_questions(reply.matches, all)
    IN  <<final \o newly_parsed, all \o newly_parsed, retries + 1>>

\* main after process_generation_loop has returned generated_list.  The
\* questions of a new list are new, so their radio starts with no selection.
FinishGeneration(generated_list) ==
    /\ pc' = "idle"
    /\ latest_generated_list' = IF generated_list # <<>> THEN generated_list ELSE <<>>
    /\ screen' = IF generated_list # <<>> THEN "mcq_complete" ELSE "mcq_failed"
    /\ answer_checked' = FALSE
    /\ Render(latest_generated_list', 0, FALSE, "none")

\* Generate clicked with no API key entered
GenerateNoKey ==
    /\ pc = "idle"
    /\ latest_generated_list' = <<>>
    /\ answer_checked' = FALSE
    /\ Render(<<>>, 0, FALSE, selected_option)
    /\ screen' = "no_key"
    /\ generation_text' = None
    /\ parsed' = NoneTriple
    /\ UNCHANGED <<all_generated_questions, pc, loop_vars>>

\* Generate clicked for English or Chinese: one call, one parse
GenerateComprehension(replies) ==
    /\ pc = "idle"
    /\ \E reply \in replies :
         /\ generation_text' = reply
         /\ IF Truthy(reply)
            THEN LET result == parse_comprehension_response(reply[1])
                 IN  /\ parsed' = result
                     /\ screen' = IF Truthy(result.story) THEN "passage" ELSE "invalid_format"
            ELSE /\ parsed' = NoneTriple
                 /\ screen' = "no_response"
    /\ latest_generated_list' = <<>>
    /\ answer_checked' = FALSE
    /\ Render(<<>>, 0, FALSE, selected_option)
    /\ UNCHANGED <<all_generated_questions, pc, loop_vars>>

\* Generate clicked for Math or Science: the run up to its first API call, or
\* to its end when the reference questions cannot be loaded.  While the run is
\* in progress the page of the previous run takes no clicks.
GenerateMCQ ==
    /\ pc = "idle"
    /\ \E n \in 1..MaxNum, loaded \in BOOLEAN :
         /\ num_to_generate' = n
         /\ final_generated_list' = <<>>
         /\ retries_used' = 0
         /\ reply_kind' = "none"
         /\ IF loaded /\ LoopCondition(<<>>, n, 0)
            THEN /\ questions_needed' = QuestionsNeeded(n, <<>>)
                 /\ api_calls' = 1
                 /\ pc' = "awaiting"
                 /\ latest_generated_list' = <<>>
                 /\ current_index' = 0
                 /\ answer_checked' = FALSE
                 /\ screen' = "generating"
                 /\ generation_text' = None
                 /\ parsed' = NoneTriple
                 /\ displayed' = FALSE
                 /\ selected_option' = "none"
                 /\ current_q_index' = 0
                 /\ verdict' = "none"
                 /\ correct_letter' = ""
            ELSE /\ questions_needed' = 0
                 /\ api_calls' = 0
                 /\ generation_text' = None
                 /\ parsed' = NoneTriple
                 /\ FinishGeneration(<<>>)
    /\ UNCHANGED all_generated_questions

\* call_gemini_api returns inside the loop: the rest of the body, then either
\* the next call or the end of the run
ApiReply ==
    /\ pc = "awaiting"
    /\ \E reply \in Replies :
         /\ reply_kind' = reply.kind
         /\ IF Breaks(reply)
            THEN UNCHANGED <<final_generated_list, all_generated_questions, retries_used>>
            ELSE LET after == BodyAfterText(reply, final_generated_list,
                                            all_generated_questions, retries_used)
                 IN  /\ final_generated_list' = after[1]
                     /\ all_generated_questions' = after[2]
                     /\ retries_used' = after[3]
         /\ IF ~Breaks(reply) /\ LoopCondition(final_generated_list', num_to_generate, retries_used')
            THEN /\ questions_needed' = QuestionsNeeded(num_to_generate, final_generated_list')
                 /\ api_calls' = api_calls + 1
                 /\ UNCHANGED <<pc, latest_generated_list, current_index, answer_checked,
                                selected_option, displayed, current_q_index, verdict,
                                correct_letter, screen, comp_vars>>
            ELSE /\ UNCHANGED <<questions_needed, api_calls, comp_vars>>
                 /\ FinishGeneration(final_generated_list')
    /\ UNCHANGED num_to_generate

----
\* The specifications.

Init ==
    /\ all_generated_questions = <<>>
    /\ latest_generated_list = <<>>
    /\ current_index = 0
    /\ answer_checked = FALSE
    /\ pc = "idle"
    /\ num_to_generate = 1
    /\ final_generated_list = <<>>
    /\ retries_used = 0
    /\ questions_needed = 0
    /\ reply_kind = "none"
    /\ api_calls = 0
    /\ selected_option = "none"
    /\ displayed = FALSE
    /\ current_q_index = 0
    /\ verdict = "none"
    /\ correct_letter = ""
    /\ screen = "start"
    /\ generation_text = None
    /\ parsed = NoneTriple

\* the comprehension replies of the session specification
SessionReplies ==
    { None, Some(<<>>), Some(<<"x">>),
      Some(<<"[Story]", "x", "[Questions]", "x", "[Answers]", "x">>),
      Some(<<"[Story]", " ", "[Questions]", "x", "[Answers]", "x">>) }

AllReplies == {None} \cup {Some(t) : t \in CompTexts}

Next ==
    \/ GenerateNoKey
    \/ GenerateComprehension(SessionReplies)
    \/ GenerateMCQ
    \/ ApiReply
    \/ SidebarChange
    \/ SelectOption
    \/ ClickCheck
    \/ ClickNext
    \/ ClickPrev

Spec == Init /\ [][Next]_vars

\* call_gemini_api is a blocking call: it returns or raises
FairSpec == Spec /\ WF_vars(ApiReply)

\* the first click on Generate of a session, for English or Chinese, with any reply
NextComp == screen = "start" /\ GenerateComprehension(AllReplies)

SpecComp == Init /\ [][NextComp]_vars

----
\* Properties.

\* C1: a run of process_generation_loop makes at most MAX_RETRIES calls of the
\* model API, whatever the replies are, and it ends: a run that is waiting for
\* a reply is eventually over.
C1_BoundedRetries ==
    /\ [](api_calls <= MAX_RETRIES /\ retries_used <= MAX_RETRIES)
    /\ (pc = "awaiting") ~> (pc = "idle")

\* C1 witness: a run used all its attempts and still fell short
C1_Witness ==
    /\ pc = "idle"
    /\ api_calls = MAX_RETRIES
    /\ retries_used = MAX_RETRIES
    /\ Len(final_generated_list) < num_to_generate

\* C2: every attempt asks for num_to_generate minus the number collected so far
\* in the run, that number is at least 1, and no attempt is in progress once the
\* number collected has reached num_to_generate.
C2_RetryOnShortfall ==
    pc = "awaiting" =>
        /\ questions_needed = num_to_generate - Len(final_generated_list)
        /\ questions_needed >= 1
        /\ Len(final_generated_list) < num_to_generate

\* C2 witness: a retry after an attempt that brought some questions, not all
C2_Witness ==
    /\ pc = "awaiting"
    /\ retries_used > 0
    /\ Len(final_generated_list) > 0

\* C3: whenever display_mcq_session renders a question, the index it reads is
\* at least 0 and less than the length of latest_generated_list, and the read
\* never fails.
C3_IndexInRange ==
    /\ displayed => (0 <= current_q_index /\ current_q_index < Len(latest_generated_list))
    /\ verdict # "index_error"
    /\ (pc = "idle" /\ latest_generated_list # <<>>) => displayed

\* C3 witness: the last question of a list of several, reached with Next
C3_Witness ==
    /\ displayed
    /\ current_q_index > 0
    /\ current_q_index = Len(latest_generated_list) - 1

\* the first of the characters A, B, C, D in an answer text, "?" when it has none
FirstLetterIn(answer) ==
    IF \E i \in 1..Len(answer) : answer[i] \in {"A", "B", "C", "D"}
    THEN answer[CHOOSE i \in 1..Len(answer) :
                    /\ answer[i] \in {"A", "B", "C", "D"}
                    /\ \A j \in 1..(i - 1) : answer[j] \notin {"A", "B", "C", "D"}]
    ELSE "?"

\* C4: with answer_checked set and an option selected, the verdict is Correct
\* exactly when the letter of the selected option is the first of A, B, C, D in
\* the stored answer; an answer without any of them gives the letter "?" and
\* the verdict Incorrect; with no option selected there is no verdict but the
\* warning.
C4_AnswerChecking ==
    (displayed /\ answer_checked /\ InRange(latest_generated_list, current_q_index)) =>
        LET item == Item(latest_generated_list, current_q_index)
        IN  /\ selected_option # "none" =>
                 /\ verdict \in {"correct", "incorrect"}
                 /\ verdict = "correct" <=> selected_option = FirstLetterIn(item.answer)
                 /\ correct_letter = FirstLetterIn(item.answer)
                 /\ (\A i \in 1..Len(item.answer) : item.answer[i] \notin {"A", "B", "C", "D"}) =>
                        (correct_letter = "?" /\ verdict = "incorrect")
            /\ selected_option = "none" => verdict = "warning"

\* C4 witness: a Correct verdict for an answer text that does not start with its letter
C4_Witness ==
    /\ displayed
    /\ answer_checked
    /\ verdict = "correct"
    /\ Head(Item(latest_generated_list, current_q_index).answer) \notin {"A", "B", "C", "D"}

\* the markers as the reply may spell them
StoryMarkers == {"[Story]"}

QuestionsMarkers == {"[Questions]", "[QUESTIONS]"}

AnswersMarkers == {"[Answers]"}

\* some token of the first set comes before some token of the second
Before(text, first, second) ==
    \E i, j \in 1..Len(text) : i < j /\ text[i] \in first /\ text[j] \in second

\* [Story] before [Questions], and [Questions] before [Answers]
MarkersInOrder(text) ==
    /\ Before(text, StoryMarkers, QuestionsMarkers)
    /\ Before(text, QuestionsMarkers, AnswersMarkers)

\* nothing but whitespace between the first [Story] and the [Questions] after it
EmptyStorySection(text) ==
    \E i, j \in 1..Len(text) :
        /\ i < j
        /\ text[i] \in StoryMarkers
        /\ text[j] \in QuestionsMarkers
        /\ \A k \in 1..(i - 1) : text[k] \notin StoryMarkers
        /\ \A k \in (i + 1)..(j - 1) : text[k] \in {" ", "\n"}

\* C5: parse_comprehension_response returns three texts exactly when the reply
\* has [Story] before [Questions] and [Questions] before [Answers], and three
\* None otherwise, never a mixture; main reports the invalid format for three
\* None, and also for a reply with the markers in order and an empty story.
C5_AllOrNothing ==
    (screen # "start" /\ Truthy(generation_text)) =>
        LET text == generation_text[1]
        IN  /\ parsed # NoneTriple <=> MarkersInOrder(text)
            /\ parsed # NoneTriple =>
                   (parsed.story # None /\ parsed.questions # None /\ parsed.answers # None)
            /\ parsed = NoneTriple => screen = "invalid_format"
            /\ (MarkersInOrder(text) /\ EmptyStorySection(text)) => screen = "invalid_format"
            /\ screen = "passage" => (parsed.story # None /\ parsed.story[1] # <<>>)

\* C5 witness: all three markers in order, an empty story, reported as invalid
C5_Witness ==
    /\ screen = "invalid_format"
    /\ parsed # NoneTriple
    /\ parsed.story = Some(<<>>)

\* C6: the list process_generation_loop returns, and the one stored as
\* latest_generated_list, never has more than num_to_generate questions.
C6_AtMostRequested ==
    /\ Len(final_generated_list) <= num_to_generate
    /\ Len(latest_generated_list) <= num_to_generate

\* the six fields of the content key of a stored question
KeyFields(q) ==
    <<q.question, q.options.A, q.options.B, q.options.C, q.options.D, q.reasoning>>

KeysOf(list) == {KeyFields(list[i]) : i \in 1..Len(list)}

NoTwoAlike(list) ==
    \A i, j \in 1..Len(list) : i # j => KeyFields(list[i]) # KeyFields(list[j])

\* a step adds to the list of the run only questions whose key is not yet in
\* the session-wide list, and shows only the list of the run
AddsOnlyNew ==
    /\ \/ final_generated_list' = <<>>
       \/ /\ Len(final_generated_list') >= Len(final_generated_list)
          /\ SubSeq(final_generated_list', 1, Len(final_generated_list)) = final_generated_list
          /\ \A k \in (Len(final_generated_list) + 1)..Len(final_generated_list') :
                 KeyFields(final_generated_list'[k]) \notin KeysOf(all_generated_questions)
          /\ all_generated_questions' =
                 all_generated_questions \o
                 SubSeq(final_generated_list', Len(final_generated_list) + 1,
                        Len(final_generated_list'))
    /\ latest_generated_list' \in {latest_generated_list, <<>>, final_generated_list'}

\* C7: all_generated_questions never holds two questions with the same content
\* key, and a question of an earlier run is never added or shown again: what a
\* step adds has keys the session-wide list did not have.
C7_NoRepeats ==
    /\ [](NoTwoAlike(all_generated_questions) /\ NoTwoAlike(latest_generated_list))
    /\ [][AddsOnlyNew]_vars

\* C7 witness: a later run shows fewer questions than the session has collected
C7_Witness ==
    /\ screen = "mcq_complete"
    /\ Len(all_generated_questions) >= 3
    /\ Len(latest_generated_list) < Len(all_generated_questions)

\* C8: a failed call or an empty reply ends the loop at once: no further call,
\* the retry counter as it was, the questions collected so far returned and
\* still in all_generated_questions.  A non-empty reply that brings no new
\* question uses up one retry, and the next call follows while retries remain.
C8_StopOnFailure ==
    [][pc = "awaiting" =>
         /\ reply_kind' \in {"exception", "empty"} =>
              /\ pc' = "idle"
              /\ api_calls' = api_calls
              /\ retries_used' = retries_used
              /\ final_generated_list' = final_generated_list
              /\ all_generated_questions' = all_generated_questions
              /\ latest_generated_list' = final_generated_list
         /\ (reply_kind' = "text" /\ final_generated_list' = final_generated_list) =>
              /\ retries_used' = retries_used + 1
              /\ all_generated_questions' = all_generated_questions
              /\ retries_used' < MAX_RETRIES => (pc' = "awaiting" /\ api_calls' = api_calls + 1)
              /\ retries_used' >= MAX_RETRIES => pc' = "idle"]_vars

\* C8 witness: an empty reply after an attempt that had brought a question
C8_Witness ==
    /\ pc = "idle"
    /\ reply_kind = "empty"
    /\ retries_used = 1
    /\ final_generated_list # <<>>
    /\ Len(final_generated_list) < num_to_generate
    /\ latest_generated_list = final_generated_list

====
